---- MODULE Spec2Model ----
(***************************************************************************)
(* Model of the quest bot (src/bot.py, src/database.py): the relational    *)
(* rows, the photo files on disk, the participant's dialogue state and the *)
(* handlers that are suspended at a network await.                         *)
(*                                                                         *)
(* Granularity: a handler runs atomically between two network awaits       *)
(* (bot.send_message, bot.send_photo, message.answer, the download).  The  *)
(* awaits of the in-memory dialogue storage and of cleanup_task_files /    *)
(* cleanup_quest_files never suspend, so they do not split an action.      *)
(* os.remove of a file that exists is taken to succeed.                    *)
(*                                                                         *)
(* Submissions are made by the participant (GIRLFRIEND_ID) only.  Of the   *)
(* administrator's dialogues the last step is modelled, the one that       *)
(* inserts the row; do_<task_id> sets the dialogue data and state in one   *)
(* step.  A send to Telegram that a handler issues is taken to arrive,     *)
(* except the report of a new submission, whose failure the code handles.  *)
(***************************************************************************)
EXTENDS Integers, FiniteSets, Sequences, Bags, TLC

\* ---- bounds of the model -------------------------------------------------
MaxQuestId == 2
MaxTaskId == 2
MaxSubId == 2
MaxCompId == 2
MaxPhoto == 2
MaxTime == 2
MaxInflight == 2
MaxInterleave == 1
MaxKilled == 1
MaxTotal == 10
MaxOutcomes == 4
MaxMonth == 2
MaxDay == 11
MaxRequired == 2
MaxTelegramId == 24
MaxApproved == 51
MaxCompleted == 4
MaxDialogueQuestId == 1
MaxDialogueTaskId == 3
MaxEntryTaskId == 1
MaxSender == 3

\* ---- program constants ---------------------------------------------------
\* a nullable column that holds no value, a dialogue key that is absent
NULL == 0
\* row ids of the two users main() inserts: the administrator, the participant
ADMIN_USER == 1
length == 10
max_retries == 3
GIRLFRIEND_USER == 2
\* the platform ids of the configuration, two different accounts
ADMIN_ID == 1
GIRLFRIEND_ID == 2

VARIABLES
    quests,             \* table quests: id -> row
    tasks,              \* table tasks: id -> row
    submissions,        \* table submissions: id -> row
    quest_completions,  \* table quest_completions: id -> row
    files,              \* files in photos/ that a row, the dialogue or a handler
                        \* names, or that a deleted row left behind
    fsm,                \* the participant's dialogue: state and data
    procs,              \* bag of the handlers suspended at an await
    interleaved,        \* handlers dispatched since a handler was first suspended
    killed,             \* times the process was killed and started again
    users,              \* table users: id -> row
    admin_fsm,          \* the administrator's dialogue: state and data
    last                \* the handler step just taken and the messages it sent

vars == <<quests, tasks, submissions, quest_completions, files, fsm, procs,
          interleaved, killed, users, admin_fsm, last>>

QuestIds == 1..MaxQuestId
TaskIds == 1..MaxTaskId
SubIds == 1..MaxSubId
PhotoIds == 1..MaxPhoto
RequiredValues == 1..MaxRequired

\* ---- rows ----------------------------------------------------------------
EmptyRows == [x \in {} |-> NULL]

Max(S) == CHOOSE x \in S : \A y \in S : y <= x

\* SQLite gives an INTEGER PRIMARY KEY without AUTOINCREMENT the largest
\* existing rowid plus one
NextId(rows) == IF DOMAIN rows = {} THEN 1 ELSE Max(DOMAIN rows) + 1

Without(rows, ids) == [x \in DOMAIN rows \ ids |-> rows[x]]

With(rows, id, row) ==
    [x \in DOMAIN rows \cup {id} |-> IF x = id THEN row ELSE rows[x]]

\* ---- messages and the record of the last step ----------------------------
Msg(type, id, n) == [type |-> type, id |-> id, n |-> n]

Last(op, arg, out, err) == [op |-> op, arg |-> arg, out |-> out, err |-> err]

\* ---- suspended handlers --------------------------------------------------
Proc(kind, sub, completed, quest, task, dest, caption) ==
    [kind |-> kind, sub |-> sub, completed |-> completed, quest |-> quest,
     task |-> task, dest |-> dest, caption |-> caption]

Suspended == BagToSet(procs)

CanSuspend == BagCardinality(procs) < MaxInflight

Suspend(p) == procs (+) SetToBag({p})

Resume(p) == procs (-) SetToBag({p})

\* ---- files ---------------------------------------------------------------
\* photos/<role>_<uuid4>.jpg: the image of a quest or task is named after the
\* row it was stored for, a submission photo after the order of its download
NoFile == <<"none", NULL>>

QuestImage(quest_id) == <<"quest", quest_id>>

TaskImage(task_id) == <<"task", task_id>>

Photo(k) == <<"submission", k>>

\* the submission photos a row, the dialogue or a suspended handler names
NamedPhotos(subs, dialogue, handlers) ==
    {subs[s].photo_url : s \in DOMAIN subs}
    \cup {p.dest : p \in BagToSet(handlers)}
    \cup {dialogue.photo_path}

\* uuid4: a new photo never has a name that is on disk or still known
UnusedPhotos ==
    {k \in PhotoIds : Photo(k) \notin files \cup NamedPhotos(submissions, fsm, procs)}

FreshPhoto == Photo(CHOOSE k \in UnusedPhotos : \A g \in UnusedPhotos : k <= g)

\* a downloaded photo whose name the dialogue and the handlers have lost and no
\* row holds can never be named again: the model drops it from files
Forget(fs, old, subs, dialogue, handlers) ==
    fs \ ({old} \ NamedPhotos(subs, dialogue, handlers))

\* ---- queries -------------------------------------------------------------
\* session.query(Submission).filter_by(user_id=..., is_approved=True).count()
CompletedCount(subs, user_id) ==
    Cardinality({s \in DOMAIN subs :
                    subs[s].user_id = user_id /\ subs[s].is_approved})

\* session.query(Submission).join(Task).filter(Task.quest_id == quest.id,
\*     Submission.user_id == user.id, Submission.is_approved == True).count()
QuestCompletedCount(subs, tsks, quest_id, user_id) ==
    Cardinality({s \in DOMAIN subs :
                    /\ subs[s].task_id \in DOMAIN tsks
                    /\ tsks[subs[s].task_id].quest_id = quest_id
                    /\ subs[s].user_id = user_id
                    /\ subs[s].is_approved})

\* a threshold that must be passed, not reached
ExceededThreshold(completed, required) == completed > required

\* completed >= quest.required_completions
ReachedThreshold(completed, required) == completed >= required

\* a check that finds no completion record
NoExisting(quest_id, user_id) == FALSE

\* a check that looks the completion record up by the id of the quest
ExistingById(quest_id, user_id) == quest_id \in DOMAIN quest_completions

\* session.query(QuestCompletion).filter_by(quest_id=..., user_id=...).first()
Existing(quest_id, user_id) ==
    \E c \in DOMAIN quest_completions :
        /\ quest_completions[c].quest_id = quest_id
        /\ quest_completions[c].user_id = user_id

\* do_<task_id>: session.query(Submission).filter_by(task_id=..., user_id=...,
\*     is_approved=False).first()
existing_submission(task_id, user_id) ==
    \E s \in DOMAIN submissions :
        /\ submissions[s].task_id = task_id
        /\ submissions[s].user_id = user_id
        /\ ~submissions[s].is_approved

\* a supersession that leaves the pending submissions in place
old_subs_none(task_id, user_id) == {}

\* a supersession that takes every submission of the pair, approved or not
old_subs_any(task_id, user_id) ==
    {s \in DOMAIN submissions :
        /\ submissions[s].task_id = task_id
        /\ submissions[s].user_id = user_id}

\* process_complete_submission: session.query(Submission).filter_by(task_id=...,
\*     user_id=..., is_approved=False).all()
old_subs(task_id, user_id) ==
    {s \in DOMAIN submissions :
        /\ submissions[s].task_id = task_id
        /\ submissions[s].user_id = user_id
        /\ ~submissions[s].is_approved}

\* Task.submissions: the rows the delete of a task cascades to
TaskSubmissions(task_id) ==
    {s \in DOMAIN submissions : submissions[s].task_id = task_id}

\* Quest.tasks: the rows the delete of a quest cascades to
QuestTasks(quest_id) ==
    {t \in DOMAIN tasks : tasks[t].quest_id = quest_id}

\* a cleanup that forgets the image of the task
cleanup_task_photos(task_id) ==
    {submissions[s].photo_url : s \in TaskSubmissions(task_id)} \ {NoFile}

\* the files cleanup_task_files removes: the photo of every submission of the
\* task, and the image of the task when the task row exists
cleanup_task_files(task_id) ==
    ({submissions[s].photo_url : s \in TaskSubmissions(task_id)}
     \cup (IF task_id \in DOMAIN tasks THEN {tasks[task_id].image_url} ELSE {}))
    \ {NoFile}

\* a cleanup that forgets the files of the tasks of the quest
cleanup_quest_image(quest_id) ==
    (IF quest_id \in DOMAIN quests THEN {quests[quest_id].image_url} ELSE {})
    \ {NoFile}

\* a cleanup that forgets the image of the quest
cleanup_quest_tasks_files(quest_id) ==
    UNION {cleanup_task_files(t) : t \in QuestTasks(quest_id)}

\* the files cleanup_quest_files removes: those of every task of the quest,
\* and the image of the quest when the quest row exists
cleanup_quest_files(quest_id) ==
    (UNION {cleanup_task_files(t) : t \in QuestTasks(quest_id)}
     \cup (IF quest_id \in DOMAIN quests THEN {quests[quest_id].image_url} ELSE {}))
    \ {NoFile}

\* ---- the state after main() ----------------------------------------------
ClearedFsm == [state |-> "none", task_id |-> NULL, photo_path |-> NoFile]

\* a dialogue of the administrator: the state and the dict of state.get_data()
NoData == [k \in {} |-> NULL]
ClearedAdmin == [state |-> "none", data |-> NoData]

\* a lookup that finds no row
no_user(rows, telegram_id) == {}

\* session.query(User).filter_by(telegram_id=...)
users_by_telegram_id(rows, telegram_id) ==
    {u \in DOMAIN rows : rows[u].telegram_id = telegram_id}

\* the INSERT of a user row; telegram_id is UNIQUE, a second row for the id
\* raises IntegrityError and nothing is stored
insert_user(rows, telegram_id) ==
    IF \E u \in DOMAIN rows : rows[u].telegram_id = telegram_id
    THEN rows
    ELSE With(rows, NextId(rows),
              [telegram_id |-> telegram_id,
               is_admin |-> telegram_id = ADMIN_ID])

\* get_user, and each of the two lookups of main(): the table afterwards
get_user(rows, telegram_id) ==
    IF users_by_telegram_id(rows, telegram_id) = {}
    THEN insert_user(rows, telegram_id)
    ELSE rows

\* main(): the administrator, then the participant unless GIRLFRIEND_ID is 0
main_users(rows) ==
    IF GIRLFRIEND_ID # 0
    THEN get_user(get_user(rows, ADMIN_ID), GIRLFRIEND_ID)
    ELSE get_user(rows, ADMIN_ID)

\* everything but the users table
InitTables ==
    /\ quests = EmptyRows
    /\ tasks = EmptyRows
    /\ submissions = EmptyRows
    /\ quest_completions = EmptyRows
    /\ files = {}
    /\ fsm = ClearedFsm
    /\ procs = EmptyBag
    /\ interleaved = 0
    /\ killed = 0
    /\ admin_fsm = ClearedAdmin
    /\ last = Last("main", NULL, {}, FALSE)

Init ==
    /\ InitTables
    /\ users = main_users(EmptyRows)

\* ---- the administrator creates quests and tasks --------------------------
\* the last step of the quest dialogue; the image, when one was sent, was
\* downloaded by quest_image
quest_required(required, withImage) ==
    LET id == NextId(quests)
        image == IF withImage THEN QuestImage(id) ELSE NoFile
    IN /\ id <= MaxQuestId
       /\ quests' = With(quests, id, [required_completions |-> required,
                                      image_url |-> image, is_active |-> TRUE])
       /\ files' = IF withImage THEN files \cup {image} ELSE files
       /\ last' = Last("quest_required", id, {}, FALSE)
       /\ UNCHANGED <<tasks, submissions, quest_completions, fsm, procs>>

\* the last step of the task dialogue; quest_id is what add_task_<id> stored,
\* no handler looks the quest up
task_date(quest_id, withImage) ==
    LET id == NextId(tasks)
        image == IF withImage THEN TaskImage(id) ELSE NoFile
    IN /\ id <= MaxTaskId
       /\ tasks' = With(tasks, id, [quest_id |-> quest_id, image_url |-> image])
       /\ files' = IF withImage THEN files \cup {image} ELSE files
       /\ last' = Last("task_date", id, {}, FALSE)
       /\ UNCHANGED <<quests, submissions, quest_completions, fsm, procs>>

\* ---- approve_<sub_id> ----------------------------------------------------
\* datetime.now() is later than the stamp the row holds: approved_at is the
\* rank of the stamp among those the row was given
\* an approval that sets is_approved and leaves approved_at as it is
set_approved_unstamped(rows, sub_id) ==
    [rows EXCEPT ![sub_id].is_approved = TRUE]

\* sub.is_approved = True; sub.approved_at = datetime.now()
set_approved(rows, sub_id) ==
    [rows EXCEPT ![sub_id].is_approved = TRUE, ![sub_id].approved_at = @ + 1]

approve(sub_id) ==
    /\ IF sub_id \notin DOMAIN submissions
       THEN /\ UNCHANGED <<submissions, quest_completions, procs>>
            /\ last' = Last("approve", sub_id, {}, FALSE)
       ELSE LET subs1 == set_approved(submissions, sub_id)
                sub == subs1[sub_id]
                completed == CompletedCount(subs1, sub.user_id)
            IN /\ sub.approved_at <= MaxTime
               /\ IF \/ sub.task_id \notin DOMAIN tasks
                     \/ tasks[sub.task_id].quest_id \notin DOMAIN quests
                  THEN \* sub.task or sub.task.quest is None: AttributeError
                       \* after the commit of the approval
                       /\ submissions' = subs1
                       /\ UNCHANGED <<quest_completions, procs>>
                       /\ last' = Last("approve", sub_id, {}, TRUE)
                  ELSE LET q == tasks[sub.task_id].quest_id
                       IN IF /\ ReachedThreshold(completed,
                                                 quests[q].required_completions)
                             /\ ~Existing(q, sub.user_id)
                          THEN /\ NextId(quest_completions) <= MaxCompId
                               /\ CanSuspend
                               /\ submissions' = subs1
                               /\ quest_completions' =
                                    With(quest_completions,
                                         NextId(quest_completions),
                                         [quest_id |-> q, user_id |-> sub.user_id])
                               /\ procs' = Suspend(Proc("approve", sub_id, completed,
                                                        q, NULL, NoFile, FALSE))
                               /\ last' = Last("approve", sub_id,
                                               {Msg("congrats", q, 0)}, FALSE)
                          ELSE /\ submissions' = subs1
                               /\ UNCHANGED <<quest_completions, procs>>
                               /\ last' = Last("approve", sub_id,
                                               {Msg("approved", sub_id, completed)},
                                               FALSE)
    /\ UNCHANGED <<quests, tasks, files, fsm>>

\* the approve handler that created a completion, after the congratulation and
\* show_current_quest: the second commit expired sub and quest, so building the
\* approval message loads them again
approve_notify(p) ==
    /\ p.kind = "approve"
    /\ LET gone == \/ p.sub \notin DOMAIN submissions
                   \/ submissions[p.sub].task_id \notin DOMAIN tasks
                   \/ p.quest \notin DOMAIN quests
       IN last' = Last("approve_notify", p.sub,
                       IF gone THEN {} ELSE {Msg("approved", p.sub, p.completed)},
                       gone)
    /\ procs' = Resume(p)
    /\ UNCHANGED <<quests, tasks, submissions, quest_completions, files, fsm>>

\* ---- reject_<sub_id> -----------------------------------------------------
reject(sub_id) ==
    /\ IF sub_id \notin DOMAIN submissions
       THEN /\ UNCHANGED <<submissions, files>>
            /\ last' = Last("reject", sub_id, {}, FALSE)
       ELSE IF submissions[sub_id].task_id \notin DOMAIN tasks
            THEN \* sub.task is None: AttributeError before anything is deleted
                 /\ UNCHANGED <<submissions, files>>
                 /\ last' = Last("reject", sub_id, {}, TRUE)
            ELSE /\ files' = files \ {submissions[sub_id].photo_url}
                 /\ submissions' = Without(submissions, {sub_id})
                 /\ last' = Last("reject", sub_id, {Msg("rejected", sub_id, 0)}, FALSE)
    /\ UNCHANGED <<quests, tasks, quest_completions, fsm, procs>>

\* ---- confirm_delete_quest_<quest_id> -------------------------------------
confirm_delete_quest(quest_id) ==
    /\ files' = files \ cleanup_quest_files(quest_id)
    /\ IF quest_id \in DOMAIN quests
       THEN /\ quests' = Without(quests, {quest_id})
            /\ tasks' = Without(tasks, QuestTasks(quest_id))
            /\ submissions' = Without(submissions,
                 UNION {TaskSubmissions(t) : t \in QuestTasks(quest_id)})
            \* Quest.completions has no delete cascade: the rows stay, their
            \* quest_id is set to NULL
            /\ quest_completions' =
                 [c \in DOMAIN quest_completions |->
                    IF quest_completions[c].quest_id = quest_id
                    THEN [quest_completions[c] EXCEPT !.quest_id = NULL]
                    ELSE quest_completions[c]]
            /\ last' = Last("confirm_delete_quest", quest_id,
                            {Msg("quest_deleted", quest_id, 0)}, FALSE)
       ELSE /\ UNCHANGED <<quests, tasks, submissions, quest_completions>>
            /\ last' = Last("confirm_delete_quest", quest_id, {}, FALSE)
    /\ UNCHANGED <<fsm, procs>>

\* ---- confirm_delete_task_<task_id> ---------------------------------------
confirm_delete_task(task_id) ==
    /\ files' = files \ cleanup_task_files(task_id)
    /\ IF task_id \in DOMAIN tasks
       THEN /\ tasks' = Without(tasks, {task_id})
            /\ submissions' = Without(submissions, TaskSubmissions(task_id))
            \* quest.title of a quest that does not exist: AttributeError
            \* after the commit
            /\ LET failed == tasks[task_id].quest_id \notin DOMAIN quests
               IN last' = Last("confirm_delete_task", task_id,
                               IF failed THEN {}
                               ELSE {Msg("task_deleted", task_id, 0)}, failed)
       ELSE /\ UNCHANGED <<tasks, submissions>>
            /\ last' = Last("confirm_delete_task", task_id, {}, FALSE)
    /\ UNCHANGED <<quests, quest_completions, fsm, procs>>

\* ---- the participant's submission dialogue -------------------------------
\* do_<task_id>
do(task_id) ==
    /\ IF existing_submission(task_id, GIRLFRIEND_USER)
       THEN /\ UNCHANGED fsm
            /\ last' = Last("do", task_id, {Msg("already_pending", task_id, 0)}, FALSE)
       ELSE IF task_id \notin DOMAIN tasks
            THEN \* task.title of None: AttributeError
                 /\ UNCHANGED fsm
                 /\ last' = Last("do", task_id, {}, TRUE)
            ELSE /\ fsm' = [fsm EXCEPT !.task_id = task_id,
                                       !.state = "waiting_for_photo"]
                 /\ last' = Last("do", task_id, {}, FALSE)
    /\ UNCHANGED <<quests, tasks, submissions, quest_completions, files, procs>>

\* cancel_action, main_menu, /menu, /cancel from the participant
cancel_action ==
    /\ fsm' = ClearedFsm
    /\ files' = Forget(files, fsm.photo_path, submissions, ClearedFsm, procs)
    /\ last' = Last("cancel_action", NULL, {}, FALSE)
    /\ UNCHANGED <<quests, tasks, submissions, quest_completions, procs>>

\* a photo in waiting_for_photo, up to the first await
handle_photo(caption) ==
    /\ fsm.state = "waiting_for_photo"
    /\ IF fsm.task_id = NULL
       THEN /\ fsm' = ClearedFsm
            /\ files' = Forget(files, fsm.photo_path, submissions, ClearedFsm, procs)
            /\ UNCHANGED procs
       ELSE /\ CanSuspend
            /\ procs' = Suspend(Proc("download", NULL, 0, NULL, NULL, NoFile, caption))
            /\ UNCHANGED <<fsm, files>>
    /\ last' = Last("handle_photo", NULL, {}, FALSE)
    /\ UNCHANGED <<quests, tasks, submissions, quest_completions>>

\* a handle_photo that gives the dialogue up when the download failed
handle_photo_downloaded_clearing(p, success) ==
    /\ p.kind = "download"
    /\ IF success
       THEN /\ UnusedPhotos # {}
            /\ fsm' = [fsm EXCEPT !.photo_path = FreshPhoto]
            /\ procs' = Resume(p) (+) SetToBag({[p EXCEPT !.kind = "downloaded",
                                                          !.dest = FreshPhoto]})
            /\ files' = Forget(files \cup {FreshPhoto}, fsm.photo_path,
                               submissions, fsm', procs')
            /\ last' = Last("handle_photo_downloaded", NULL, {}, FALSE)
       ELSE /\ procs' = Resume(p)
            /\ last' = Last("handle_photo_downloaded", NULL,
                            {Msg("download_failed", NULL, 0)}, FALSE)
            /\ fsm' = ClearedFsm
            /\ files' = Forget(files, fsm.photo_path, submissions, ClearedFsm,
                               Resume(p))
    /\ UNCHANGED <<quests, tasks, submissions, quest_completions>>

\* handle_photo after download_photo_with_retry returned
handle_photo_downloaded(p, success) ==
    /\ p.kind = "download"
    /\ IF success
       THEN /\ UnusedPhotos # {}
            /\ fsm' = [fsm EXCEPT !.photo_path = FreshPhoto]
            /\ procs' = Resume(p) (+) SetToBag({[p EXCEPT !.kind = "downloaded",
                                                          !.dest = FreshPhoto]})
            /\ files' = Forget(files \cup {FreshPhoto}, fsm.photo_path,
                               submissions, fsm', procs')
            /\ last' = Last("handle_photo_downloaded", NULL, {}, FALSE)
       ELSE /\ procs' = Resume(p)
            /\ last' = Last("handle_photo_downloaded", NULL,
                            {Msg("download_failed", NULL, 0)}, FALSE)
            /\ UNCHANGED <<files, fsm>>
    /\ UNCHANGED <<quests, tasks, submissions, quest_completions>>

\* process_complete_submission up to its first await: the pending submissions
\* of the pair and their photos go, the new row is inserted, one commit.  The
\* INSERT is flushed before the DELETEs, so the new id follows every old one.
\* others: the handlers suspended besides this one.
process_complete_submission(others, photo_path) ==
    LET task_id == fsm.task_id
        old == old_subs(task_id, GIRLFRIEND_USER)
        id == NextId(submissions)
    IN /\ id <= MaxSubId
       /\ files' = files \ {submissions[s].photo_url : s \in old}
       /\ submissions' =
            With(Without(submissions, old), id,
                 [task_id |-> task_id, user_id |-> GIRLFRIEND_USER,
                  photo_url |-> photo_path, is_approved |-> FALSE,
                  approved_at |-> NULL])
       /\ procs' = others (+) SetToBag({Proc("submitted", id, 0, NULL, task_id,
                                               photo_path, FALSE)})
       /\ last' = Last("process_complete_submission", id, {}, FALSE)

\* handle_photo after safe_delete_message: the caption is the comment, or the
\* dialogue waits for one
handle_photo_resume(p) ==
    /\ p.kind = "downloaded"
    /\ IF p.caption
       THEN /\ process_complete_submission(Resume(p), p.dest)
            /\ UNCHANGED fsm
       ELSE /\ fsm' = [fsm EXCEPT !.state = "waiting_for_comment"]
            /\ procs' = Resume(p)
            /\ files' = Forget(files, p.dest, submissions, fsm', procs')
            /\ last' = Last("handle_photo_resume", NULL, {}, FALSE)
            /\ UNCHANGED submissions
    /\ UNCHANGED <<quests, tasks, quest_completions>>

\* a text in waiting_for_comment
handle_comment ==
    /\ fsm.state = "waiting_for_comment"
    /\ IF fsm.task_id = NULL \/ fsm.photo_path = NoFile
       THEN /\ fsm' = ClearedFsm
            /\ files' = Forget(files, fsm.photo_path, submissions, ClearedFsm, procs)
            /\ last' = Last("handle_comment", NULL, {}, FALSE)
            /\ UNCHANGED <<submissions, procs>>
       ELSE /\ CanSuspend
            /\ process_complete_submission(procs, fsm.photo_path)
            /\ UNCHANGED fsm
    /\ UNCHANGED <<quests, tasks, quest_completions>>

\* a text in waiting_for_photo: the message is deleted and answered
handle_unexpected_text ==
    /\ fsm.state = "waiting_for_photo"
    /\ last' = Last("handle_unexpected_text", NULL,
                    {Msg("photo_first", NULL, 0)}, FALSE)
    /\ UNCHANGED <<quests, tasks, submissions, quest_completions, files, fsm,
                   procs>>

\* an unexpected photo that is taken for the photo of the report
handle_unexpected_photo_replacing ==
    /\ fsm.state = "waiting_for_comment"
    /\ UnusedPhotos # {}
    /\ fsm' = [fsm EXCEPT !.photo_path = FreshPhoto]
    /\ files' = Forget(files \cup {FreshPhoto}, fsm.photo_path, submissions,
                       fsm', procs)
    /\ last' = Last("handle_unexpected_photo", NULL,
                    {Msg("comment_first", NULL, 0)}, FALSE)
    /\ UNCHANGED <<quests, tasks, submissions, quest_completions, procs>>

\* a photo in waiting_for_comment: the message is deleted and answered
handle_unexpected_photo ==
    /\ fsm.state = "waiting_for_comment"
    /\ last' = Last("handle_unexpected_photo", NULL,
                    {Msg("comment_first", NULL, 0)}, FALSE)
    /\ UNCHANGED <<quests, tasks, submissions, quest_completions, files, fsm,
                   procs>>

\* process_complete_submission after the commit: the report goes to the
\* administrator; task and sub were expired by the commit and are loaded
\* again, the photo is read from disk, the send may fail.  On any error the
\* photo is removed; the dialogue is cleared in every case.
submission_notify(p, sent) ==
    /\ p.kind = "submitted"
    /\ LET failed == \/ p.task \notin DOMAIN tasks
                     \/ p.sub \notin DOMAIN submissions
                     \/ p.dest \notin files
                     \/ ~sent
       IN /\ files' = Forget(IF failed THEN files \ {p.dest} ELSE files,
                             fsm.photo_path, submissions, ClearedFsm, Resume(p))
          /\ last' = Last("submission_notify", p.sub,
                          IF failed THEN {Msg("submission_error", p.sub, 0)}
                          ELSE {Msg("new_report", p.sub, 0)}, failed)
    /\ fsm' = ClearedFsm
    /\ procs' = Resume(p)
    /\ UNCHANGED <<quests, tasks, submissions, quest_completions>>

\* ---- the dispatcher ------------------------------------------------------
\* Updates are handled as tasks: a new handler may start while others are
\* suspended.  With concurrent = FALSE an update is dispatched when the handler
\* of the one before has ended; with concurrent = TRUE up to MaxInterleave
\* handlers start from the moment one is suspended until none is.
Dispatch(handler, concurrent) ==
    /\ procs = EmptyBag \/ (concurrent /\ interleaved < MaxInterleave)
    /\ killed < MaxKilled
    /\ handler
    /\ interleaved' = IF procs = EmptyBag \/ procs' = EmptyBag THEN 0
                      ELSE interleaved + 1
    /\ UNCHANGED <<killed, users, admin_fsm>>

Continue(handler) ==
    /\ handler
    /\ interleaved' = IF procs' = EmptyBag THEN 0 ELSE interleaved
    /\ UNCHANGED <<killed, users, admin_fsm>>

\* the inputs the exploration draws: the administrator sends an image with
\* every quest and task, and adds tasks to quests that exist
ImageChoices == {TRUE}

\* with concurrent dispatch the exploration keeps to the first quest
MayCreateQuest(concurrent) == ~concurrent \/ quests = EmptyRows

Handlers(concurrent) ==
    \/ \E required \in RequiredValues, withImage \in ImageChoices :
          /\ MayCreateQuest(concurrent)
          /\ Dispatch(quest_required(required, withImage), concurrent)
    \/ \E quest_id \in DOMAIN quests, withImage \in ImageChoices :
          Dispatch(task_date(quest_id, withImage), concurrent)
    \/ \E sub_id \in SubIds : Dispatch(approve(sub_id), concurrent)
    \/ \E p \in Suspended : Continue(approve_notify(p))
    \/ \E sub_id \in SubIds : Dispatch(reject(sub_id), concurrent)
    \/ \E quest_id \in QuestIds : Dispatch(confirm_delete_quest(quest_id), concurrent)
    \/ \E task_id \in TaskIds : Dispatch(confirm_delete_task(task_id), concurrent)
    \/ \E task_id \in TaskIds : Dispatch(do(task_id), concurrent)
    \/ Dispatch(cancel_action, concurrent)
    \/ \E caption \in BOOLEAN : Dispatch(handle_photo(caption), concurrent)
    \/ \E p \in Suspended, success \in BOOLEAN :
          Continue(handle_photo_downloaded(p, success))
    \/ \E p \in Suspended : Continue(handle_photo_resume(p))
    \/ Dispatch(handle_comment, concurrent)
    \/ \E p \in Suspended, sent \in BOOLEAN : Continue(submission_notify(p, sent))

\* one update at a time
Next == Handlers(FALSE)

Spec == Init /\ [][Next]_vars

\* updates handled concurrently
NextConcurrent == Handlers(TRUE)

SpecConcurrent == Init /\ [][NextConcurrent]_vars

\* ---- a deleting handler killed between its steps ------------------------
\* The process is killed inside a handler that deletes rows, after some of its
\* os.remove calls and before its commit; main() then starts again with the
\* database and photos/ as they are, the dialogue storage (MemoryStorage) empty
\* and no handler suspended.

\* a handler that commits its deletes before it removes the files
Committed(rows, deleted) == Without(rows, deleted)

\* the rows a commit that was not reached has deleted: none
Uncommitted(rows, deleted) == rows

\* photos/ after the restart: a submission photo no row names can never be
\* named again
Restarted(fs) == fs \ ({Photo(k) : k \in PhotoIds}
                        \ NamedPhotos(submissions, ClearedFsm, EmptyBag))

Killed(op, arg, removed) ==
    /\ removed # {}
    /\ removed \subseteq files
    /\ files' = Restarted(files \ removed)
    /\ fsm' = ClearedFsm
    /\ procs' = EmptyBag
    /\ last' = Last(op, arg, {}, TRUE)

\* reject_<sub_id> killed after os.remove(sub.photo_url)
reject_killed(sub_id) ==
    /\ sub_id \in DOMAIN submissions
    /\ submissions[sub_id].task_id \in DOMAIN tasks
    /\ Killed("reject_killed", sub_id, {submissions[sub_id].photo_url})
    /\ submissions' = Uncommitted(submissions, {sub_id})
    /\ UNCHANGED <<quests, tasks, quest_completions>>

\* process_complete_submission killed in the loop over old_subs, entered from
\* handle_comment or from handle_photo with a caption
process_complete_submission_killed(removed) ==
    /\ \/ /\ fsm.state = "waiting_for_comment"
          /\ fsm.task_id # NULL
          /\ fsm.photo_path # NoFile
       \/ \E p \in Suspended : p.kind = "downloaded" /\ p.caption
    /\ removed \subseteq {submissions[s].photo_url :
                            s \in old_subs(fsm.task_id, GIRLFRIEND_USER)}
    /\ Killed("process_complete_submission_killed", fsm.task_id, removed)
    /\ submissions' = Uncommitted(submissions,
                                  old_subs(fsm.task_id, GIRLFRIEND_USER))
    /\ UNCHANGED <<quests, tasks, quest_completions>>

\* confirm_delete_task_<task_id> killed in or after cleanup_task_files
confirm_delete_task_killed(task_id, removed) ==
    /\ task_id \in DOMAIN tasks
    /\ removed \subseteq cleanup_task_files(task_id)
    /\ Killed("confirm_delete_task_killed", task_id, removed)
    /\ tasks' = Uncommitted(tasks, {task_id})
    /\ submissions' = Uncommitted(submissions, TaskSubmissions(task_id))
    /\ UNCHANGED <<quests, quest_completions>>

\* confirm_delete_quest_<quest_id> killed in or after cleanup_quest_files
confirm_delete_quest_killed(quest_id, removed) ==
    /\ quest_id \in DOMAIN quests
    /\ removed \subseteq cleanup_quest_files(quest_id)
    /\ Killed("confirm_delete_quest_killed", quest_id, removed)
    /\ quests' = Uncommitted(quests, {quest_id})
    /\ tasks' = Uncommitted(tasks, QuestTasks(quest_id))
    /\ submissions' = Uncommitted(submissions,
         UNION {TaskSubmissions(t) : t \in QuestTasks(quest_id)})
    /\ UNCHANGED quest_completions

\* a handler that was dispatched and killed
Interrupt(handler) ==
    /\ procs = EmptyBag \/ interleaved < MaxInterleave
    /\ killed < MaxKilled
    /\ handler
    /\ interleaved' = 0
    /\ killed' = killed + 1
    /\ admin_fsm' = ClearedAdmin
    /\ UNCHANGED users

NextKilled ==
    \/ Handlers(TRUE)
    \/ \E sub_id \in SubIds : Interrupt(reject_killed(sub_id))
    \/ \E removed \in SUBSET files :
          Interrupt(process_complete_submission_killed(removed))
    \/ \E task_id \in TaskIds, removed \in SUBSET files :
          Interrupt(confirm_delete_task_killed(task_id, removed))
    \/ \E quest_id \in QuestIds, removed \in SUBSET files :
          Interrupt(confirm_delete_quest_killed(quest_id, removed))

\* updates handled concurrently, deleting handlers may be killed
SpecKilled == Init /\ [][NextKilled]_vars

\* ---- the views of the participant ----------------------------------------
Min(S) == CHOOSE x \in S : \A y \in S : x <= y

\* show_current_quest: [cq.quest_id for cq in QuestCompletion of the user];
\* the quest_id of a completion whose quest was deleted is NULL
completed_quest_ids(user_id) ==
    {quest_completions[c].quest_id :
        c \in {d \in DOMAIN quest_completions :
                 quest_completions[d].user_id = user_id}}

\* a selection that does not look at the completion records
selected_any(user_id) == {q \in DOMAIN quests : quests[q].is_active}

\* the rows of filter(Quest.is_active == True, ~Quest.id.in_(ids)), or of
\* filter_by(is_active=True) for an empty list.  id NOT IN (..., NULL) is
\* never true in SQL: with a NULL in the list no row is selected.
selected(user_id) ==
    IF completed_quest_ids(user_id) = {}
    THEN {q \in DOMAIN quests : quests[q].is_active}
    ELSE IF NULL \in completed_quest_ids(user_id)
         THEN {}
         ELSE {q \in DOMAIN quests :
                 quests[q].is_active /\ q \notin completed_quest_ids(user_id)}

\* show_current_quest: the quest shown, .first() of the selection in rowid
\* order, or NULL for "all quests completed"
show_current_quest(user_id) ==
    IF selected(user_id) = {} THEN NULL ELSE Min(selected(user_id))

\* show_current_quest: completed_count = len(completed_ids), the task ids of
\* the approved submissions of the user
completed_count(user_id) == CompletedCount(submissions, user_id)

\* ---- utils.format_progress_bar -------------------------------------------
\* the pairs <<completed, total>> with total <= 100 for which the double
\* (completed / total) * 100 lies below the integer it stands for, so that
\* int() gives one less than floor(100 * completed / total)
FloatShort == {<<29, 50>>, <<29, 100>>, <<57, 100>>, <<58, 100>>}

\* a percentage taken on the scale of the bar
percent_of_length(completed, total) == (completed * length) \div total

\* int((completed / total) * 100), total # 0
int_percent(completed, total) ==
    (completed * 100) \div total
        - (IF <<completed, total>> \in FloatShort THEN 1 ELSE 0)

\* "c" * n: the empty string for n <= 0
Repeat(c, n) == [i \in 1..n |-> c]

format_progress_bar(completed, total) ==
    IF total = 0
    THEN Repeat("empty", length)
    ELSE LET percent == int_percent(completed, total)
             filled == percent \div 10
         IN Repeat("filled", filled) \o Repeat("empty", length - filled)

\* show_current_quest: percent = int((completed_count / required) * 100) if
\* required > 0 else 0
current_percent(completed, required) ==
    IF required > 0 THEN int_percent(completed, required) ELSE 0

\* show_current_quest: bar = "█" * (percent // 10) + "░" * (10 - percent // 10)
current_bar(percent) ==
    Repeat("filled", percent \div 10) \o Repeat("empty", 10 - (percent \div 10))

\* ---- download_photo_with_retry -------------------------------------------
\* what an attempt can end with: the download done, asyncio.TimeoutError after
\* 30 seconds, any other Exception
Outcomes == {"ok", "timeout", "error"}

\* a loop that gives up at the first failure
retry_never(attempt) == FALSE

\* attempt < max_retries - 1: sleep and try again
retry(attempt) == attempt < max_retries - 1

RECURSIVE download_attempt(_, _)
\* the body of "for attempt in range(max_retries)" and what follows the loop;
\* outcomes[i] is what the i-th download would end with
download_attempt(outcomes, attempt) ==
    IF attempt >= max_retries \/ attempt >= Len(outcomes)
    THEN [returned |-> FALSE, attempts |-> attempt]
    ELSE IF outcomes[attempt + 1] = "ok"
         THEN [returned |-> TRUE, attempts |-> attempt + 1]
         ELSE IF retry(attempt)
              THEN download_attempt(outcomes, attempt + 1)
              ELSE [returned |-> FALSE, attempts |-> attempt + 1]

download_photo_with_retry(outcomes) == download_attempt(outcomes, 0)

\* ---- the task lines of show_current_quest --------------------------------
\* A date text is the sequence of its characters: a digit is its value, "-"
\* is Hyphen, which sorts before every digit as in ASCII.
Hyphen == 0 - 1

\* the year of every date of the model, "2025"
YearText == <<2, 0, 2, 5>>

\* what strptime's %m and %d accept for n: "07" or "7", "11"
NumberText(n, padded) ==
    IF n >= 10 THEN <<n \div 10, n % 10>>
    ELSE IF padded THEN <<0, n>> ELSE <<n>>

\* a text validate_date accepts for the day d of the month m, stored as typed
DateText(m, d, m_padded, d_padded) ==
    YearText \o <<Hyphen>> \o NumberText(m, m_padded)
             \o <<Hyphen>> \o NumberText(d, d_padded)

\* date.today().isoformat()
isoformat(m, d) == DateText(m, d, TRUE, TRUE)

RECURSIVE StrGreater(_, _)
\* a > b on str: by the first character that differs, a proper prefix is less
StrGreater(a, b) ==
    IF a = <<>> THEN FALSE
    ELSE IF b = <<>> THEN TRUE
    ELSE IF Head(a) # Head(b) THEN Head(a) > Head(b)
    ELSE StrGreater(Tail(a), Tail(b))

NoDate == <<>>

\* the branch the loop "for t in tasks" takes for a task: approved is
\* t.id in completed_ids, pending is t.id in pending_ids, scheduled_date is
\* the stored text or NoDate; do is whether the do_<id> button is built
task_line(approved, pending, scheduled_date, today) ==
    IF approved THEN [class |-> "approved", do |-> FALSE]
    ELSE IF pending THEN [class |-> "pending", do |-> FALSE]
    ELSE IF scheduled_date # NoDate /\ StrGreater(scheduled_date, today)
         THEN [class |-> "scheduled", do |-> FALSE]
         ELSE [class |-> "available", do |-> TRUE]

\* ---- the functions applied to inputs -------------------------------------
Totals == 0..MaxTotal \cup {50, 100}

call_format_progress_bar(completed, total) ==
    /\ last.op = "main"
    /\ last' = Last("format_progress_bar", <<completed, total>>,
                    {format_progress_bar(completed, total)}, FALSE)
    /\ UNCHANGED <<quests, tasks, submissions, quest_completions, files, fsm,
                   procs, interleaved, killed, users, admin_fsm>>

call_download_photo_with_retry(outcomes) ==
    /\ last.op = "main"
    /\ last' = Last("download_photo_with_retry", outcomes,
                    {download_photo_with_retry(outcomes)}, FALSE)
    /\ UNCHANGED <<quests, tasks, submissions, quest_completions, files, fsm,
                   procs, interleaved, killed, users, admin_fsm>>

\* a task without scheduled_date, or with the day d of the month m typed with
\* or without leading zeros, shown on the day td of the month tm
call_task_line(approved, pending, dated, m, d, m_padded, d_padded, tm, td) ==
    /\ last.op = "main"
    /\ last' = Last("task_line",
                    [approved |-> approved, pending |-> pending,
                     dated |-> dated, m |-> m, d |-> d, tm |-> tm, td |-> td],
                    {task_line(approved, pending,
                               IF dated THEN DateText(m, d, m_padded, d_padded)
                               ELSE NoDate,
                               isoformat(tm, td))}, FALSE)
    /\ UNCHANGED <<quests, tasks, submissions, quest_completions, files, fsm,
                   procs, interleaved, killed, users, admin_fsm>>

NextUtils ==
    \/ \E total \in Totals, completed \in 0..MaxTotal \cup {29, 57, 58} :
          completed <= total /\ call_format_progress_bar(completed, total)
    \/ \E outcomes \in [1..MaxOutcomes -> Outcomes] :
          call_download_photo_with_retry(outcomes)
    \/ \E approved, pending, dated, m_padded, d_padded \in BOOLEAN,
          m, tm \in 1..MaxMonth, d, td \in 1..MaxDay :
          call_task_line(approved, pending, dated, m, d, m_padded, d_padded,
                         tm, td)

\* the pure functions, each applied once to an input of the bounded sets
SpecUtils == Init /\ [][NextUtils]_vars

\* ---- /start and the users table ------------------------------------------
TelegramIds == 0..MaxTelegramId

\* /start from any account
cmd_start(sender) ==
    /\ IF sender \notin {ADMIN_ID, GIRLFRIEND_ID}
       THEN /\ UNCHANGED users
            /\ last' = Last("cmd_start", sender, {Msg("no_access", sender, 0)},
                            FALSE)
       ELSE /\ users' = get_user(users, sender)
            /\ LET found == {u \in DOMAIN users' :
                               users'[u].telegram_id = sender}
                   raised == users_by_telegram_id(users, sender) = {}
                                /\ users' = users
               IN last' = Last("cmd_start", sender,
                               IF raised THEN {}
                               ELSE {Msg("welcome", Min(found), 0)}, raised)
    /\ UNCHANGED <<quests, tasks, submissions, quest_completions, files, fsm,
                   procs, interleaved, killed, admin_fsm>>

\* the process is started again: the dialogues are gone, the rows main()
\* misses are inserted, or its database block raised and was logged
main(raised) ==
    /\ procs = EmptyBag
    /\ users' = IF raised THEN users ELSE main_users(users)
    /\ fsm' = ClearedFsm
    /\ admin_fsm' = ClearedAdmin
    /\ last' = Last("main", NULL, {}, raised)
    /\ UNCHANGED <<quests, tasks, submissions, quest_completions, files, procs,
                   interleaved, killed>>

\* the bot starts on a database in which main() stored the users, or could not
InitUsers ==
    /\ InitTables
    /\ users \in {EmptyRows, main_users(EmptyRows)}

NextUsers ==
    \/ \E sender \in TelegramIds : cmd_start(sender)
    \/ \E raised \in BOOLEAN : main(raised)

SpecUsers == InitUsers /\ [][NextUsers]_vars

\* ---- the dialogues of the administrator ----------------------------------
\* A text is the sequence of its characters, digits and Hyphen as in the date
\* texts, a letter as a number above 9; NoText is message.text of a message
\* without text, a photo.
NoText == <<Hyphen, Hyphen>>
Net == <<10, 11, 12>>
Abc == <<13, 14, 15>>

IsDigits(t) == Len(t) > 0 /\ \A i \in 1..Len(t) : t[i] \in 0..9

RECURSIVE Decimal(_)
Decimal(t) == IF t = <<>> THEN 0
              ELSE 10 * Decimal(SubSeq(t, 1, Len(t) - 1)) + t[Len(t)]

\* int(message.text) raises ValueError, or TypeError for None
int_raises(t) ==
    ~(IsDigits(t) \/ (Len(t) > 1 /\ Head(t) = Hyphen /\ IsDigits(Tail(t))))

\* int(message.text)
int(t) == IF Head(t) = Hyphen THEN 0 - Decimal(Tail(t)) ELSE Decimal(t)

\* the text has the form YYYY-MM-DD
IsYearMonthDay(t) ==
    \E m \in 1..12, d \in 1..28 : t = DateText(m, d, TRUE, TRUE)

\* utils.validate_date: strptime(date_str, '%Y-%m-%d') does not raise; %m and
\* %d take one or two digits
validate_date(t) ==
    \E m \in 1..12, d \in 1..28, m_padded, d_padded \in BOOLEAN :
        t = DateText(m, d, m_padded, d_padded)

\* state.update_data(key=value)
update_data(data, key, value) ==
    [k \in DOMAIN data \cup {key} |-> IF k = key THEN value ELSE data[k]]

\* data.get(key)
get(data, key) == IF key \in DOMAIN data THEN data[key] ELSE NULL

\* a handler that moves the dialogue on: update_data, then set_state
Collect(op, state, key, value, next) ==
    /\ admin_fsm.state = state
    /\ admin_fsm' = [state |-> next,
                     data |-> update_data(admin_fsm.data, key, value)]
    /\ last' = Last(op, NULL, {}, FALSE)
    /\ UNCHANGED <<quests, tasks, files>>

\* a handler that ends with an exception or a re-prompt and changes nothing
Refuse(op, out, err) ==
    /\ last' = Last(op, NULL, out, err)
    /\ UNCHANGED <<quests, tasks, files, admin_fsm>>

\* callback create_quest
create_quest ==
    /\ admin_fsm' = [admin_fsm EXCEPT !.state = "QuestCreation.title"]
    /\ last' = Last("create_quest", NULL, {}, FALSE)
    /\ UNCHANGED <<quests, tasks, files>>

quest_title ==
    Collect("quest_title", "QuestCreation.title", "title", Abc,
            "QuestCreation.description")

quest_description ==
    Collect("quest_description", "QuestCreation.description", "description",
            Abc, "QuestCreation.image")

\* the image was downloaded to dest, or 'нет' was sent
quest_image(withImage) ==
    Collect("quest_image", "QuestCreation.image", "image", withImage,
            "QuestCreation.reward")

quest_reward ==
    Collect("quest_reward", "QuestCreation.reward", "reward", Abc,
            "QuestCreation.required")

\* quest_required for the text sent
quest_required_text(text) ==
    /\ admin_fsm.state = "QuestCreation.required"
    /\ IF int_raises(text)
       THEN Refuse("quest_required", {Msg("enter_number", NULL, 0)},
                   text = NoText)
       ELSE LET id == NextId(quests)
                image == IF admin_fsm.data["image"] THEN QuestImage(id)
                         ELSE NoFile
            IN /\ quests' = With(quests, id,
                                 [required_completions |-> int(text),
                                  image_url |-> image, is_active |-> TRUE])
               /\ files' = files \cup ({image} \ {NoFile})
               /\ admin_fsm' = ClearedAdmin
               /\ last' = Last("quest_required", id, {}, FALSE)
               /\ UNCHANGED tasks

\* callback add_task_<quest_id>
add_task(quest_id) ==
    /\ admin_fsm' = [state |-> "TaskCreation.title",
                     data |-> update_data(admin_fsm.data, "quest_id", quest_id)]
    /\ last' = Last("add_task", quest_id, {}, FALSE)
    /\ UNCHANGED <<quests, tasks, files>>

task_title ==
    Collect("task_title", "TaskCreation.title", "title", Abc,
            "TaskCreation.description")

task_description ==
    Collect("task_description", "TaskCreation.description", "description",
            Abc, "TaskCreation.image")

task_image(withImage) ==
    Collect("task_image", "TaskCreation.image", "image", withImage,
            "TaskCreation.points")

task_points(text) ==
    /\ admin_fsm.state = "TaskCreation.points"
    /\ IF int_raises(text)
       THEN Refuse("task_points", {Msg("enter_number", NULL, 0)},
                   text = NoText)
       ELSE Collect("task_points", "TaskCreation.points", "points", int(text),
                    "TaskCreation.date")

\* task_date for the text sent: order is the number of tasks of the quest
\* plus one, scheduled_date the text as sent
task_date_text(text) ==
    /\ admin_fsm.state = "TaskCreation.date"
    /\ IF text = NoText
       THEN \* message.text.lower() of None: AttributeError
            Refuse("task_date", {}, TRUE)
       ELSE IF text # Net /\ ~validate_date(text)
       THEN Refuse("task_date", {Msg("bad_date", NULL, 0)}, FALSE)
       ELSE LET id == NextId(tasks)
                quest_id == admin_fsm.data["quest_id"]
                image == IF admin_fsm.data["image"] THEN TaskImage(id)
                         ELSE NoFile
            IN /\ tasks' = With(tasks, id,
                     [quest_id |-> quest_id, image_url |-> image,
                      points |-> admin_fsm.data["points"],
                      order |-> Cardinality(QuestTasks(quest_id)) + 1,
                      scheduled_date |-> IF text = Net THEN NoDate ELSE text])
               /\ files' = files \cup ({image} \ {NoFile})
               /\ admin_fsm' = ClearedAdmin
               /\ last' = Last("task_date", id, {}, FALSE)
               /\ UNCHANGED quests

\* callbacks edit_points_<task_id> and edit_date_<task_id>
edit_field(task_id, field) ==
    /\ admin_fsm' = [state |-> "TaskEdit.field",
                     data |-> update_data(update_data(admin_fsm.data,
                                  "task_id", task_id), "field", field)]
    /\ last' = Last("edit_" \o field, task_id, {}, FALSE)
    /\ UNCHANGED <<quests, tasks, files>>

\* edit_task_field for the text sent; a refused text returns before
\* state.clear(), a task that is gone clears the dialogue
edit_task_field(text) ==
    LET task_id == get(admin_fsm.data, "task_id")
        field == get(admin_fsm.data, "field")
    IN /\ admin_fsm.state = "TaskEdit.field"
       /\ IF task_id \notin DOMAIN tasks
          THEN /\ admin_fsm' = ClearedAdmin
               /\ last' = Last("edit_task_field", task_id, {}, FALSE)
               /\ UNCHANGED <<quests, tasks, files>>
          ELSE IF field = "points" /\ text # NoText /\ int_raises(text)
          THEN Refuse("edit_task_field", {Msg("enter_number", NULL, 0)}, FALSE)
          ELSE IF text = NoText
          THEN \* int(None): TypeError, None.lower(): AttributeError
               Refuse("edit_task_field", {}, TRUE)
          ELSE IF field = "date" /\ text # Net /\ ~validate_date(text)
          THEN Refuse("edit_task_field", {Msg("bad_date", NULL, 0)}, FALSE)
          ELSE /\ tasks' =
                    IF field = "points"
                    THEN [tasks EXCEPT ![task_id].points = int(text)]
                    ELSE [tasks EXCEPT ![task_id].scheduled_date =
                                           IF text = Net THEN NoDate ELSE text]
               /\ admin_fsm' = ClearedAdmin
               /\ last' = Last("edit_task_field", task_id,
                               {Msg("task_updated", task_id, 0)}, FALSE)
               /\ UNCHANGED <<quests, files>>

\* a cancel that sets the state to None and keeps the collected data
admin_cancel_keeping_data ==
    /\ admin_fsm' = [admin_fsm EXCEPT !.state = "none"]
    /\ last' = Last("admin_cancel", NULL, {}, FALSE)
    /\ UNCHANGED <<quests, tasks, files>>

\* cancel_action, main_menu, /menu, /cancel from the administrator
admin_cancel ==
    /\ admin_fsm' = ClearedAdmin
    /\ last' = Last("admin_cancel", NULL, {}, FALSE)
    /\ UNCHANGED <<quests, tasks, files>>

\* the texts the administrator answers the question for the required
\* completions with
RequiredTexts == {NoText, Abc, <<0>>, <<1>>}

\* the texts the administrator answers the question for the points with
PointsTexts == {NoText, Abc, <<1>>}

\* the texts the administrator answers the date question with
DateTexts == {NoText, Abc, Net, DateText(1, 5, TRUE, TRUE),
              DateText(1, 5, TRUE, FALSE)}

\* a handler of the administrator, one update at a time
Admin(handler) ==
    /\ procs = EmptyBag
    /\ handler
    /\ UNCHANGED <<submissions, quest_completions, fsm, procs, interleaved,
                   killed, users>>

\* the exploration ends a dialogue with a row while the table has room
AdminHandlers(maxTaskId) ==
    \/ Admin(create_quest)
    \/ Admin(quest_title)
    \/ Admin(quest_description)
    \/ \E withImage \in ImageChoices : Admin(quest_image(withImage))
    \/ Admin(quest_reward)
    \/ \E text \in RequiredTexts :
          /\ Cardinality(DOMAIN quests) < MaxDialogueQuestId
          /\ Admin(quest_required_text(text))
    \/ \E quest_id \in DOMAIN quests : Admin(add_task(quest_id))
    \/ Admin(task_title)
    \/ Admin(task_description)
    \/ \E withImage \in ImageChoices : Admin(task_image(withImage))
    \/ \E text \in PointsTexts : Admin(task_points(text))
    \/ \E text \in DateTexts :
          /\ NextId(tasks) <= maxTaskId
          /\ Admin(task_date_text(text))
    \/ \E task_id \in DOMAIN tasks, field \in {"points", "date"} :
          Admin(edit_field(task_id, field))
    \/ \E text \in PointsTexts \cup DateTexts : Admin(edit_task_field(text))
    \/ Admin(admin_cancel)

NextAdmin ==
    \/ AdminHandlers(MaxDialogueTaskId)
    \/ \E task_id \in 1..MaxDialogueTaskId :
          Dispatch(confirm_delete_task(task_id), FALSE)

\* the administrator's dialogues step by step, updates handled one at a time
SpecAdmin == Init /\ [][NextAdmin]_vars

\* the dialogues of the administrator and of the participant, one update at
\* a time
NextDialogues ==
    \/ AdminHandlers(MaxEntryTaskId)
    \/ \E task_id \in TaskIds : Dispatch(do(task_id), FALSE)
    \/ Dispatch(cancel_action, FALSE)
    \/ \E caption \in BOOLEAN : Dispatch(handle_photo(caption), FALSE)
    \/ \E p \in Suspended, success \in BOOLEAN :
          Continue(handle_photo_downloaded(p, success))
    \/ \E p \in Suspended : Continue(handle_photo_resume(p))
    \/ Dispatch(handle_comment, FALSE)
    \/ \E p \in Suspended, sent \in BOOLEAN : Continue(submission_notify(p, sent))
    \/ Dispatch(handle_unexpected_text, FALSE)
    \/ Dispatch(handle_unexpected_photo, FALSE)
    \/ \E quest_id \in 1..MaxDialogueQuestId :
          Dispatch(confirm_delete_quest(quest_id), FALSE)

SpecDialogues == Init /\ [][NextDialogues]_vars

\* ---- the senders of updates ----------------------------------------------
\* MemoryStorage keeps one dialogue per sender: admin_fsm is the dialogue of
\* ADMIN_ID, fsm the one of GIRLFRIEND_ID; no handler sets a state for any
\* other sender.
Senders == 1..MaxSender

\* a gate that lets every sender into the administrator's branch
admin_gate_open(sender) == TRUE

\* handle_callback: if user_id == ADMIN_ID
admin_gate(sender) == sender = ADMIN_ID

\* handle_callback: elif user_id == GIRLFRIEND_ID
participant_gate(sender) == ~admin_gate(sender) /\ sender = GIRLFRIEND_ID

\* a callback or a message no branch and no handler takes
ignored(sender, update) ==
    /\ procs = EmptyBag
    /\ last' = Last(update, sender, {}, FALSE)
    /\ UNCHANGED <<quests, tasks, submissions, quest_completions, files, fsm,
                   procs, interleaved, killed, users, admin_fsm>>

\* cancel_action, main_menu, /menu, /cancel: state.clear() for the sender
cancel_from(sender) ==
    IF sender = ADMIN_ID THEN Admin(admin_cancel)
    ELSE IF sender = GIRLFRIEND_ID THEN Dispatch(cancel_action, FALSE)
    ELSE ignored(sender, "ignored_cancel")

\* the callbacks of the administrator's branch
admin_callback(sender) ==
    /\ admin_gate(sender)
    /\ \/ \E sub_id \in SubIds : Dispatch(approve(sub_id), FALSE)
       \/ \E sub_id \in SubIds : Dispatch(reject(sub_id), FALSE)
       \/ \E task_id \in 1..MaxEntryTaskId :
             Dispatch(confirm_delete_task(task_id), FALSE)
       \/ Admin(create_quest)
       \/ \E quest_id \in DOMAIN quests : Admin(add_task(quest_id))
       \/ \E task_id \in DOMAIN tasks, field \in {"points", "date"} :
             Admin(edit_field(task_id, field))

\* the callbacks of the participant's branch
participant_callback(sender) ==
    /\ participant_gate(sender)
    /\ \E task_id \in TaskIds : Dispatch(do(task_id), FALSE)

\* the message handlers, filtered on the dialogue state of the sender and, for
\* the submission dialogue, on the sender; the administrator gives answers
\* that are taken
message(sender) ==
    \/ /\ sender = ADMIN_ID
       /\ \/ Admin(quest_title)
          \/ Admin(quest_description)
          \/ \E withImage \in ImageChoices : Admin(quest_image(withImage))
          \/ Admin(quest_reward)
          \/ \E text \in {<<1>>} :
                /\ Cardinality(DOMAIN quests) < MaxDialogueQuestId
                /\ Admin(quest_required_text(text))
          \/ Admin(task_title)
          \/ Admin(task_description)
          \/ \E withImage \in ImageChoices : Admin(task_image(withImage))
          \/ \E text \in {<<1>>} : Admin(task_points(text))
          \/ \E text \in {Net} :
                /\ NextId(tasks) <= MaxEntryTaskId
                /\ Admin(task_date_text(text))
          \/ \E text \in {<<1>>, Net} :
                Admin(edit_task_field(text))
    \/ /\ sender = GIRLFRIEND_ID
       /\ \/ \E caption \in BOOLEAN : Dispatch(handle_photo(caption), FALSE)
          \/ Dispatch(handle_comment, FALSE)
    \/ /\ sender \notin {ADMIN_ID, GIRLFRIEND_ID}
       /\ ignored(sender, "ignored_message")

\* a handler of the sender going on after an await
continued(sender) ==
    \/ /\ sender = ADMIN_ID
       /\ \E p \in Suspended : Continue(approve_notify(p))
    \/ /\ sender = GIRLFRIEND_ID
       /\ \/ \E p \in Suspended, success \in BOOLEAN :
                Continue(handle_photo_downloaded(p, success))
          \/ \E p \in Suspended : Continue(handle_photo_resume(p))
          \/ \E p \in Suspended, sent \in BOOLEAN :
                Continue(submission_notify(p, sent))

\* a step for an update of the sender
Update(sender) ==
    \/ cancel_from(sender)
    \/ admin_callback(sender)
    \/ participant_callback(sender)
    \/ /\ ~admin_gate(sender) /\ ~participant_gate(sender)
       /\ ignored(sender, "ignored_callback")
    \/ message(sender)
    \/ continued(sender)

NextSenders == \E sender \in Senders : Update(sender)

\* updates from the administrator, the participant and other senders, handled
\* one at a time
SpecSenders == Init /\ [][NextSenders]_vars

\* ---- the views: current_quest, my_stats, achievements, girl_stats --------
\* a milestone that is earned only above its threshold
earned_above(count, threshold) == count > threshold

\* total_completed >= 10
earned(count, threshold) == count >= threshold

\* show_achievements: the third component of the six achievements, in order
show_achievements(total_completed, completed_quests) ==
    <<earned(total_completed, 1), earned(total_completed, 10),
      earned(total_completed, 25), earned(total_completed, 50),
      earned(completed_quests, 1), earned(completed_quests, 3)>>

\* QuestCompletion rows of the user, filter_by(user_id=user.id).count()
completed_quests(user_id) ==
    Cardinality({c \in DOMAIN quest_completions :
                    quest_completions[c].user_id = user_id})

\* what a view changes: nothing
View(op, out, err) ==
    /\ last' = Last(op, NULL, out, err)
    /\ UNCHANGED <<quests, tasks, submissions, quest_completions, files, fsm,
                   procs, interleaved, killed, users, admin_fsm>>

\* s.task.points of an approved submission whose task is gone: AttributeError
points_raise(user_id) ==
    \E s \in DOMAIN submissions :
        /\ submissions[s].user_id = user_id
        /\ submissions[s].is_approved
        /\ submissions[s].task_id \notin DOMAIN tasks

\* the per-quest lines of show_my_stats and of girl_stats
quest_lines(user_id) ==
    {Msg(IF Existing(q, user_id) THEN "done" ELSE "progress", q,
         QuestCompletedCount(submissions, tasks, q, user_id)) :
        q \in {r \in DOMAIN quests : quests[r].is_active}}

current_quest ==
    View("current_quest",
         {Msg("current_quest", show_current_quest(GIRLFRIEND_USER),
              completed_count(GIRLFRIEND_USER))}, FALSE)

my_stats ==
    View("my_stats",
         IF points_raise(GIRLFRIEND_USER) THEN {}
         ELSE quest_lines(GIRLFRIEND_USER),
         points_raise(GIRLFRIEND_USER))

achievements ==
    View("achievements",
         {show_achievements(CompletedCount(submissions, GIRLFRIEND_USER),
                            completed_quests(GIRLFRIEND_USER))}, FALSE)

girl_stats == View("girl_stats", quest_lines(GIRLFRIEND_USER), FALSE)

\* a database the views are opened on: a quest with a task, approved
\* submissions of the participant, completions of the quest and of quests
\* deleted since, the participant idle or in a submission dialogue
InitViews ==
    /\ quests = (1 :> [required_completions |-> 1,
                       image_url |-> QuestImage(1), is_active |-> TRUE])
    /\ tasks = (1 :> [quest_id |-> 1, image_url |-> TaskImage(1)])
    /\ \E n \in 0..MaxApproved :
          submissions = [s \in 1..n |->
                           [task_id |-> 1, user_id |-> GIRLFRIEND_USER,
                            photo_url |-> Photo(1), is_approved |-> TRUE,
                            approved_at |-> 1]]
    /\ \E k \in 0..MaxCompleted :
          quest_completions = [c \in 1..k |->
                                 [quest_id |-> IF c = 1 THEN 1 ELSE NULL,
                                  user_id |-> GIRLFRIEND_USER]]
    /\ files = {QuestImage(1), TaskImage(1), Photo(1)}
    /\ fsm \in {ClearedFsm, [ClearedFsm EXCEPT !.state = "waiting_for_photo",
                                               !.task_id = 1]}
    /\ procs = EmptyBag
    /\ interleaved = 0
    /\ killed = 0
    /\ users = main_users(EmptyRows)
    /\ admin_fsm = ClearedAdmin
    /\ last = Last("main", NULL, {}, FALSE)

NextViews ==
    \/ current_quest
    \/ my_stats
    \/ achievements
    \/ girl_stats

SpecViews == InitViews /\ [][NextViews]_vars

\* ---- observations the properties are stated with -------------------------
Users == {ADMIN_USER, GIRLFRIEND_USER}

\* the completion records of a quest and a user
Completions(rows, quest_id, user_id) ==
    {c \in DOMAIN rows :
        rows[c].quest_id = quest_id /\ rows[c].user_id = user_id}

\* the approved submissions of a user
Approved(subs, user_id) ==
    {s \in DOMAIN subs : subs[s].user_id = user_id /\ subs[s].is_approved}

\* the step taken is the first segment of handler op called with arg
Took(op, arg) == last'.op = op /\ last'.arg = arg

\* a file is on disk after the step exactly if it was before
FileKept(f) == (f \in files') <=> (f \in files)

\* ---- C1 ------------------------------------------------------------------
\* C1: in every reachable state a (task, user) pair has at most one submission
\* with is_approved = FALSE, also when two submission flows of one task
\* interleave at their awaits.
C1_OnePendingPerTaskUser ==
    \A s1, s2 \in DOMAIN submissions :
        (/\ submissions[s1].task_id = submissions[s2].task_id
         /\ submissions[s1].user_id = submissions[s2].user_id
         /\ ~submissions[s1].is_approved
         /\ ~submissions[s2].is_approved) => s1 = s2

\* a second flow of the same task committed its submission while the first
\* flow is still suspended before its report: the first submission was
\* superseded
C1_Witness ==
    /\ last.op = "process_complete_submission"
    /\ last.arg \in DOMAIN submissions
    /\ ~submissions[last.arg].is_approved
    /\ \E p \in Suspended :
          /\ p.kind = "submitted"
          /\ p.sub # last.arg
          /\ p.sub \notin DOMAIN submissions
          /\ p.task = submissions[last.arg].task_id

\* ---- C2 ------------------------------------------------------------------
\* C2: in every reachable state a (quest, user) pair has at most one
\* QuestCompletion row, whatever approvals were repeated or interleaved.  The
\* rows a deleted quest left behind hold no quest (quest_id NULL).
C2_OneCompletionPerQuestUser ==
    \A c1, c2 \in DOMAIN quest_completions :
        (/\ quest_completions[c1].quest_id = quest_completions[c2].quest_id
         /\ quest_completions[c1].quest_id # NULL
         /\ quest_completions[c1].user_id = quest_completions[c2].user_id)
        => c1 = c2

\* an approval was handled while the approval that created the completion
\* record of the same quest is suspended at an await
C2_Witness ==
    /\ last.op = "approve"
    /\ ~last.err
    /\ \E p \in Suspended :
          /\ p.kind = "approve"
          /\ Completions(quest_completions, p.quest, GIRLFRIEND_USER) # {}
          /\ last.arg \in DOMAIN submissions
          /\ submissions[last.arg].task_id \in DOMAIN tasks
          /\ tasks[submissions[last.arg].task_id].quest_id = p.quest

\* ---- C3 ------------------------------------------------------------------
\* C3: a step creates a QuestCompletion for (Q, user) only if the user's
\* approved submissions on tasks of Q are then at least Q.required_completions.
C3_CompletionOnlyAtQuestThreshold ==
    [][\A q \in DOMAIN quests :
          (/\ Completions(quest_completions, q, GIRLFRIEND_USER) = {}
           /\ Completions(quest_completions', q, GIRLFRIEND_USER) # {})
          => QuestCompletedCount(submissions', tasks', q, GIRLFRIEND_USER)
               >= quests[q].required_completions]_vars

\* ---- C4 ------------------------------------------------------------------
\* C4: right after approve of an existing submission on a task of quest Q, if
\* the user's approved submissions on tasks of Q are at least
\* Q.required_completions then a QuestCompletion of (Q, user) exists.  In the
\* scenario of a quest with required_completions = 2 and two tasks, started
\* with no completion record: after the approval that is the user's first
\* there is none, after the approval of a pending submission that follows one
\* approved submission on the other task there is exactly one.
C4_CompletionWhenThresholdReached ==
    [][\A s \in DOMAIN submissions :
          (Took("approve", s) /\ ~last'.err) =>
             LET u == submissions[s].user_id
                 t == submissions[s].task_id
                 q == tasks[t].quest_id
                 before == Approved(submissions, u)
                 after == Completions(quest_completions', q, u)
             IN /\ QuestCompletedCount(submissions', tasks', q, u)
                       >= quests[q].required_completions
                     => after # {}
                /\ (/\ quests[q].required_completions = 2
                    /\ Cardinality(QuestTasks(q)) = 2
                    /\ Completions(quest_completions, q, u) = {})
                   => /\ before = {} => after = {}
                      /\ (/\ ~submissions[s].is_approved
                          /\ \E a \in before :
                                /\ before = {a}
                                /\ submissions[a].task_id \in QuestTasks(q) \ {t})
                         => Cardinality(after) = 1]_vars

\* the second approval of the scenario was just made: both tasks of a quest
\* that requires two hold an approved submission and the record was created
C4_Witness ==
    /\ last.op = "approve"
    /\ \E q \in DOMAIN quests :
          /\ quests[q].required_completions = 2
          /\ Cardinality(QuestTasks(q)) = 2
          /\ \A t \in QuestTasks(q) :
                \E s \in Approved(submissions, GIRLFRIEND_USER) :
                    submissions[s].task_id = t
          /\ last.out = {Msg("congrats", q, 0)}
          /\ Cardinality(Completions(quest_completions, q, GIRLFRIEND_USER)) = 1

\* ---- C5 ------------------------------------------------------------------
\* C5: the congratulation for a (quest, user) is sent exactly once: a step
\* sends it exactly if it creates the QuestCompletion of the pair, the record
\* then stays while the quest exists, and a pair never has two - so no later
\* approve, repeated or not, sends it again.
C5_CongratulatedOnceAtCreation ==
    [][\A q \in QuestIds :
          LET before == Completions(quest_completions, q, GIRLFRIEND_USER)
              after == Completions(quest_completions', q, GIRLFRIEND_USER)
          IN /\ (Msg("congrats", q, 0) \in last'.out)
                  <=> (before = {} /\ after # {})
             /\ (before # {} /\ q \in DOMAIN quests') => after = before
             /\ Cardinality(after) <= 1]_vars

\* approve was invoked a second time on a submission of a completed quest and
\* sent no congratulation
C5_Witness ==
    /\ last.op = "approve"
    /\ ~last.err
    /\ last.arg \in DOMAIN submissions
    /\ submissions[last.arg].approved_at = 2
    /\ \E q \in DOMAIN quests :
          /\ tasks[submissions[last.arg].task_id].quest_id = q
          /\ Completions(quest_completions, q, GIRLFRIEND_USER) # {}
          /\ Msg("congrats", q, 0) \notin last.out

\* ---- C6 ------------------------------------------------------------------
\* C6 as stated: no step lowers a user's approved-submission count of a quest
\* that exists before and after it.
C6_CountNeverDecreases ==
    [][\A q \in DOMAIN quests \cap DOMAIN quests', u \in Users :
          QuestCompletedCount(submissions', tasks', q, u)
            >= QuestCompletedCount(submissions, tasks, q, u)]_vars

\* C6 amended: a user's approved-submission count of a quest that exists
\* before and after a step is lowered only by reject of an approved submission
\* (by one) and by confirm_delete_task of a task of the quest; approve, a new
\* submission and reject of a pending submission never lower it.
C6_CountLoweredOnlyByRejectOrDeleteTask ==
    [][\A q \in DOMAIN quests \cap DOMAIN quests', u \in Users :
          LET before == QuestCompletedCount(submissions, tasks, q, u)
              after == QuestCompletedCount(submissions', tasks', q, u)
          IN after < before =>
               \/ /\ last'.op = "reject"
                  /\ last'.arg \in DOMAIN submissions
                  /\ submissions[last'.arg].is_approved
                  /\ after = before - 1
               \/ /\ last'.op = "confirm_delete_task"
                  /\ last'.arg \in DOMAIN tasks
                  /\ tasks[last'.arg].quest_id = q]_vars

\* a new submission was just made for a task that holds an approved
\* submission: the approved one is still there
C6_Witness ==
    /\ last.op = "process_complete_submission"
    /\ last.arg \in DOMAIN submissions
    /\ \E a \in Approved(submissions, GIRLFRIEND_USER) :
          /\ submissions[a].task_id = submissions[last.arg].task_id
          /\ submissions[a].task_id \in DOMAIN tasks
          /\ tasks[submissions[a].task_id].quest_id \in DOMAIN quests

\* ---- C7 ------------------------------------------------------------------
\* C7: reject of an existing submission id deletes the row and its photo and
\* leaves every approved-submission count and every QuestCompletion unchanged.
C7_RejectDeletesAndKeepsCounts ==
    [][\A s \in DOMAIN submissions :
          Took("reject", s) =>
             /\ s \notin DOMAIN submissions'
             /\ submissions[s].photo_url \notin files'
             /\ quest_completions' = quest_completions
             /\ \A q \in DOMAIN quests, u \in Users :
                   QuestCompletedCount(submissions', tasks', q, u)
                     = QuestCompletedCount(submissions, tasks, q, u)]_vars

\* ---- C8 ------------------------------------------------------------------
\* C8: approve of a submission that is already approved changes no field of
\* it, creates no row and sends no notification.
C8_ReapproveIsNoOp ==
    [][\A s \in DOMAIN submissions :
          (Took("approve", s) /\ submissions[s].is_approved) =>
             /\ submissions' = submissions
             /\ quest_completions' = quest_completions
             /\ last'.out = {}]_vars

\* ---- C9 ------------------------------------------------------------------
\* C9: after confirm_delete_quest of an existing quest its row, the rows of
\* its tasks and of their submissions are gone, and its image, the images of
\* its tasks and the photos of their submissions are not on disk; the rows
\* and files of the other quests are as before.
C9_DeleteQuestRemovesRowsAndFiles ==
    [][\A q \in DOMAIN quests :
          Took("confirm_delete_quest", q) =>
             LET ts == {t \in DOMAIN tasks : tasks[t].quest_id = q}
                 ss == {s \in DOMAIN submissions : submissions[s].task_id \in ts}
             IN /\ DOMAIN quests' = DOMAIN quests \ {q}
                /\ DOMAIN tasks' = DOMAIN tasks \ ts
                /\ DOMAIN submissions' = DOMAIN submissions \ ss
                /\ quests[q].image_url \notin files'
                /\ \A t \in ts : tasks[t].image_url \notin files'
                /\ \A s \in ss : submissions[s].photo_url \notin files'
                /\ \A o \in DOMAIN quests' :
                      quests'[o] = quests[o] /\ FileKept(quests[o].image_url)
                /\ \A t \in DOMAIN tasks' :
                      tasks'[t] = tasks[t] /\ FileKept(tasks[t].image_url)
                /\ \A s \in DOMAIN submissions' :
                      /\ submissions'[s] = submissions[s]
                      /\ FileKept(submissions[s].photo_url)
                /\ DOMAIN quest_completions' = DOMAIN quest_completions
                /\ \A c \in DOMAIN quest_completions :
                      quest_completions[c].quest_id # q
                        => quest_completions'[c] = quest_completions[c]]_vars

\* a quest that existed was just deleted while another quest with a task, a
\* submission and their files is there
C9_Witness ==
    /\ last.op = "confirm_delete_quest"
    /\ last.out = {Msg("quest_deleted", last.arg, 0)}
    /\ \E o \in DOMAIN quests, t \in DOMAIN tasks, s \in DOMAIN submissions :
          /\ tasks[t].quest_id = o
          /\ submissions[s].task_id = t
          /\ {quests[o].image_url, tasks[t].image_url, submissions[s].photo_url}
                \subseteq files

\* ---- C10 -----------------------------------------------------------------
\* C10: after confirm_delete_task of an existing task its row and all its
\* submission rows, pending and approved, are gone and its image and their
\* photos are not on disk; the other tasks, their submissions and files and
\* all QuestCompletion rows are as before.
C10_DeleteTaskRemovesRowsAndFiles ==
    [][\A t \in DOMAIN tasks :
          Took("confirm_delete_task", t) =>
             LET ss == {s \in DOMAIN submissions : submissions[s].task_id = t}
             IN /\ DOMAIN tasks' = DOMAIN tasks \ {t}
                /\ DOMAIN submissions' = DOMAIN submissions \ ss
                /\ tasks[t].image_url \notin files'
                /\ \A s \in ss : submissions[s].photo_url \notin files'
                /\ \A o \in DOMAIN tasks' :
                      tasks'[o] = tasks[o] /\ FileKept(tasks[o].image_url)
                /\ \A s \in DOMAIN submissions' :
                      /\ submissions'[s] = submissions[s]
                      /\ FileKept(submissions[s].photo_url)
                /\ quests' = quests
                /\ quest_completions' = quest_completions]_vars

\* a task that existed was just deleted while the other task of its quest
\* holds an approved submission with its photo and the quest is completed
C10_Witness ==
    /\ last.op = "confirm_delete_task"
    /\ last.out = {Msg("task_deleted", last.arg, 0)}
    /\ \E t \in DOMAIN tasks, s \in Approved(submissions, GIRLFRIEND_USER) :
          /\ t # last.arg
          /\ submissions[s].task_id = t
          /\ submissions[s].photo_url \in files
          /\ Completions(quest_completions, tasks[t].quest_id, GIRLFRIEND_USER) # {}

\* C11: in reject, supersession, delete-task and delete-quest the file of a row
\* is removed before the commit that deletes the row: in every step, also one
\* that ends with the handler killed between its os.remove calls and its
\* commit, a submission, task or quest row that is gone after the step has its
\* photo or image off the disk after the step.
C11_FileRemovedBeforeRowDeleted ==
    [][/\ \A s \in DOMAIN submissions \ DOMAIN submissions' :
              submissions[s].photo_url \notin files'
       /\ \A t \in DOMAIN tasks \ DOMAIN tasks' :
              tasks[t].image_url \notin files'
       /\ \A q \in DOMAIN quests \ DOMAIN quests' :
              quests[q].image_url \notin files']_vars

\* a quest was deleted with its tasks and their submissions, and a handler has
\* been killed after its file removals
C11_Witness ==
    /\ killed = 1
    /\ last.op = "confirm_delete_task_killed"
    /\ \E s \in DOMAIN submissions :
          /\ submissions[s].task_id = last.arg
          /\ submissions[s].photo_url \notin files

\* the rows whose photo or image was on disk before the step have it after
RowFilesKept ==
    /\ \A s \in DOMAIN submissions' :
          submissions'[s].photo_url \in files
              => submissions'[s].photo_url \in files'
    /\ \A t \in DOMAIN tasks' :
          tasks'[t].image_url \in files => tasks'[t].image_url \in files'
    /\ \A q \in DOMAIN quests' :
          quests'[q].image_url \in files => quests'[q].image_url \in files'

\* the files a row names
RowFiles(subs, tsks, qsts) ==
    {subs[s].photo_url : s \in DOMAIN subs}
    \cup {tsks[t].image_url : t \in DOMAIN tsks}
    \cup {qsts[q].image_url : q \in DOMAIN qsts}

\* C12 as stated: a deleting handler killed between its steps leaves at worst
\* a file that no row references, never a row whose photo is missing.
C12_KilledLeavesNoRowWithoutFile ==
    [][killed' # killed => RowFilesKept]_vars

\* C12: a deleting handler killed between its file removals and its commit
\* leaves every row in place and creates no file; the only files of rows that
\* are gone after it are files of rows that still exist, so what it leaves at
\* worst is a row whose photo or image is missing.
C12_KilledLeavesRowsWithoutFile ==
    [][killed' # killed =>
          /\ submissions' = submissions
          /\ tasks' = tasks
          /\ quests' = quests
          /\ quest_completions' = quest_completions
          /\ files' \subseteq files
          /\ (files \ files') \cap RowFiles(submissions, tasks, quests)
                 \subseteq RowFiles(submissions', tasks', quests')
          /\ ~RowFilesKept]_vars

\* reject killed after os.remove: the pending submission is there, its photo
\* is not
C12_Witness ==
    /\ last.op = "reject_killed"
    /\ last.arg \in DOMAIN submissions
    /\ submissions[last.arg].photo_url \notin files

\* C13 as stated: with no kill, a submission row exists exactly as long as
\* its photo file exists: every stored submission row points to a file that
\* is on disk, also after process_complete_submission failed behind its commit.
C13_SubmissionRowHasPhoto ==
    \A s \in DOMAIN submissions : submissions[s].photo_url \in files

\* C14 as stated: every approve of an existing submission sends the
\* participant one approval notification with the progress count, at once or,
\* when the approve created a QuestCompletion, behind the congratulation.
C14_ApproveAlwaysNotifies ==
    [][/\ \A s \in DOMAIN submissions :
            Took("approve", s) =>
               \/ \E n \in 0..MaxSubId : last'.out = {Msg("approved", s, n)}
               \/ /\ \E q \in QuestIds : last'.out = {Msg("congrats", q, 0)}
                  /\ \E p \in BagToSet(procs') :
                        p.kind = "approve" /\ p.sub = s
       /\ \A p \in BagToSet(procs) :
            (p.kind = "approve" /\ Took("approve_notify", p.sub)) =>
                last'.out = {Msg("approved", p.sub, p.completed)}]_vars

\* C15 as stated: show_current_quest selects the quest with the lowest id
\* among the active quests that have no QuestCompletion row for the
\* participant, and reports that all quests are completed exactly when there
\* is no such quest.
C15_SelectsLowestOpenQuest ==
    LET open == {q \in DOMAIN quests :
                    quests[q].is_active /\ ~Existing(q, GIRLFRIEND_USER)}
    IN show_current_quest(GIRLFRIEND_USER)
           = IF open = {} THEN NULL ELSE Min(open)

\* C17 as stated: the completed count show_current_quest displays for the
\* selected quest, and the count the approval notification reports, both equal
\* the number of the participant's approved submissions whose task belongs to
\* that quest, the value show_my_stats computes for the quest.
C17_CountsArePerQuest ==
    [][/\ show_current_quest(GIRLFRIEND_USER)' # NULL =>
             completed_count(GIRLFRIEND_USER)'
                 = QuestCompletedCount(submissions', tasks',
                       show_current_quest(GIRLFRIEND_USER)', GIRLFRIEND_USER)
       /\ \A s \in DOMAIN submissions, n \in 0..MaxSubId :
             (Took("approve", s) /\ Msg("approved", s, n) \in last'.out) =>
                 n = QuestCompletedCount(submissions', tasks',
                         tasks'[submissions'[s].task_id].quest_id,
                         submissions'[s].user_id)]_vars

\* C20: when the download of a submission photo failed after all retries,
\* handle_photo creates no submission row, deletes no row and no file, and
\* leaves the dialogue in waiting_for_photo with the task_id it had, so the
\* next photo is handled by handle_photo for the same task.
C20_DownloadFailureChangesNothing ==
    [][(/\ last'.op = "handle_photo_downloaded"
        /\ Msg("download_failed", NULL, 0) \in last'.out) =>
          /\ submissions' = submissions
          /\ tasks' = tasks
          /\ quests' = quests
          /\ quest_completions' = quest_completions
          /\ files' = files
          /\ fsm' = fsm
          /\ fsm'.state = "waiting_for_photo"
          /\ fsm'.task_id # NULL]_vars

\* a download failed while a submission with its photo is stored, and the
\* dialogue still waits for the photo
C20_Witness ==
    /\ last.op = "handle_photo_downloaded"
    /\ last.out = {Msg("download_failed", NULL, 0)}
    /\ fsm.state = "waiting_for_photo"
    /\ fsm.task_id # NULL
    /\ \E s \in DOMAIN submissions : submissions[s].photo_url \in files

\* C16 as stated: a task line is approved if the participant has an approved
\* submission for the task, else pending if she has an unapproved one, else
\* scheduled-future if the scheduled date is strictly after the current date,
\* else available; the do button is built exactly for an available task.
C16_TaskLineByDate ==
    last.op = "task_line" =>
        LET a == last.arg
            later == a.dated /\ (a.m > a.tm \/ (a.m = a.tm /\ a.d > a.td))
            class == IF a.approved THEN "approved"
                     ELSE IF a.pending THEN "pending"
                     ELSE IF later THEN "scheduled"
                     ELSE "available"
        IN last.out = {[class |-> class, do |-> class = "available"]}

\* C18: format_progress_bar(completed, total) gives 10 empty segments for
\* total = 0, and for total > 0 and 0 <= completed <= total gives
\* floor(10 * completed / total) filled segments followed by empty ones, 10
\* segments in all.
C18_BarFilledByTenths ==
    last.op = "format_progress_bar" =>
        LET completed == last.arg[1]
            total == last.arg[2]
            filled == IF total = 0 THEN 0 ELSE (10 * completed) \div total
        IN last.out = {[i \in 1..10 |->
                          IF i <= filled THEN "filled" ELSE "empty"]}

\* format_progress_bar(3, 10), and (29, 50), where int() of the double is 57
C18_Witness ==
    /\ last.op = "format_progress_bar"
    /\ \/ /\ last.arg = <<3, 10>>
          /\ last.out = {<<"filled", "filled", "filled", "empty", "empty",
                           "empty", "empty", "empty", "empty", "empty">>}
       \/ /\ last.arg = <<29, 50>>
          /\ int_percent(29, 50) = 57

\* C19: download_photo_with_retry ends after at most 3 attempts: it returns
\* True at the first attempt that succeeds and makes no further attempt, and
\* returns False once the third attempt has failed by timeout or by error.
C19_AtMostThreeAttempts ==
    last.op = "download_photo_with_retry" =>
        LET outcomes == last.arg
            ok == {i \in 1..3 : outcomes[i] = "ok"}
        IN last.out = {IF ok = {}
                       THEN [returned |-> FALSE, attempts |-> 3]
                       ELSE [returned |-> TRUE, attempts |-> Min(ok)]}

\* two failures, by timeout and by error, before the download succeeds; and
\* three failures before an attempt that would succeed
C19_Witness ==
    /\ last.op = "download_photo_with_retry"
    /\ \/ /\ last.arg = <<"timeout", "error", "ok", "ok">>
          /\ last.out = {[returned |-> TRUE, attempts |-> 3]}
       \/ /\ last.arg = <<"error", "timeout", "error", "ok">>
          /\ last.out = {[returned |-> FALSE, attempts |-> 3]}

\* C27 as stated: every submission row belongs to one existing task: its
\* task_id is set and is the id of a task row, also when the task or its quest
\* was deleted during the submission dialogue and when two messages of the
\* dialogue are handled concurrently.
C27_SubmissionHasTask ==
    \A s \in DOMAIN submissions :
        /\ submissions[s].task_id # NULL
        /\ submissions[s].task_id \in DOMAIN tasks

C30_DialogueOnlyForEligibleTask ==
    [][\A t \in TaskIds :
          (Took("do", t) /\ ~last'.err /\ last'.out = {}) =>
              /\ fsm'.state = "waiting_for_photo"
              /\ fsm'.task_id = t
              /\ t \in DOMAIN tasks
              /\ ~\E s \in DOMAIN submissions :
                    /\ submissions[s].task_id = t
                    /\ submissions[s].user_id = GIRLFRIEND_USER]_vars

\* the step changes no row, no file and no dialogue, sends nothing and ends
\* without an error
SilentNoOp ==
    /\ UNCHANGED <<quests, tasks, submissions, quest_completions, files, fsm>>
    /\ last'.out = {}
    /\ ~last'.err

\* C23 as stated: approve, reject, confirm_delete_task and confirm_delete_quest with an
\* id for which no row exists are silent no-ops: no row and no file is
\* created, changed or deleted, nothing is sent to the participant, and the
\* handler ends without an error.
C23_MissingIdIsNoOp ==
    [][/\ \A s \in SubIds \ DOMAIN submissions :
             (Took("approve", s) \/ Took("reject", s)) => SilentNoOp
       /\ \A t \in TaskIds \ DOMAIN tasks :
             Took("confirm_delete_task", t) => SilentNoOp
       /\ \A q \in QuestIds \ DOMAIN quests :
             Took("confirm_delete_quest", q) => SilentNoOp]_vars

\* the user rows of a platform id
RowsOf(rows, id) == {u \in DOMAIN rows : rows[u].telegram_id = id}

\* C25: there is at most one user row per platform id; /start and main()
\* insert a row only for an id that has none, /start for an id that has a row
\* answers with that row, and no step deletes or changes a user row.
C25_OneUserRowPerPlatformId ==
    [][/\ \A id \in TelegramIds : Cardinality(RowsOf(users', id)) <= 1
       /\ \A u \in DOMAIN users : u \in DOMAIN users' /\ users'[u] = users[u]
       /\ \A u \in DOMAIN users' \ DOMAIN users :
             RowsOf(users, users'[u].telegram_id) = {}
       /\ \A id \in {ADMIN_ID, GIRLFRIEND_ID} :
             Took("cmd_start", id) =>
                 /\ ~last'.err
                 /\ \E u \in DOMAIN users' :
                       /\ users'[u].telegram_id = id
                       /\ last'.out = {Msg("welcome", u, 0)}
                       /\ RowsOf(users, id) \in {{}, {u}}]_vars

\* /start from the participant a second time, after her row was created by her
\* first /start
C25_Witness ==
    /\ last.op = "cmd_start"
    /\ last.arg = GIRLFRIEND_ID
    /\ last.out = {Msg("welcome", 1, 0)}
    /\ DOMAIN users = {1, 2}
    /\ users[1].telegram_id = GIRLFRIEND_ID
    /\ users[2].telegram_id = ADMIN_ID

\* C29: the views change no row, no file and no dialogue state, and
\* show_achievements marks the milestones earned exactly when the stored count
\* of approved submissions of the participant is >= 1, 10, 25, 50 and the
\* stored count of her QuestCompletion rows is >= 1, 3.
C29_ViewsAreStatelessReads ==
    [][/\ last'.op \in {"current_quest", "my_stats", "achievements",
                        "girl_stats"} =>
             UNCHANGED <<quests, tasks, submissions, quest_completions, users,
                         files, fsm, admin_fsm>>
       /\ last'.op = "achievements" =>
             LET n == Cardinality({s \in DOMAIN submissions :
                                     /\ submissions[s].user_id = GIRLFRIEND_USER
                                     /\ submissions[s].is_approved})
                 k == Cardinality({c \in DOMAIN quest_completions :
                          quest_completions[c].user_id = GIRLFRIEND_USER})
             IN last'.out = {<<n >= 1, n >= 10, n >= 25, n >= 50,
                               k >= 1, k >= 3>>}]_vars

\* the achievements opened with 25 approved submissions and 3 completions,
\* during a submission dialogue
C29_Witness ==
    /\ last.op = "achievements"
    /\ Len(submissions) = 25
    /\ Len(quest_completions) = 3
    /\ fsm.state = "waiting_for_photo"
    /\ last.out = {<<TRUE, TRUE, TRUE, FALSE, TRUE, TRUE>>}

\* C22: every quest row stored by the quest-creation dialogue has
\* required_completions >= 1, whatever text the administrator sends in the
\* QuestCreation.required state.
C22_RequiredAtLeastOne ==
    \A quest_id \in DOMAIN quests : quests[quest_id].required_completions >= 1

\* C26: after any sequence of task creations and task deletions no two tasks
\* of the same quest have the same order value.
C26_OrdersDistinctWithinQuest ==
    \A t1, t2 \in DOMAIN tasks :
        (t1 # t2 /\ tasks[t1].quest_id = tasks[t2].quest_id)
            => tasks[t1].order # tasks[t2].order

\* C21: a validation failure mutates nothing: a step of quest_required,
\* task_points, task_date or edit_task_field whose text is not an integer
\* (asked for a number) or is not in YYYY-MM-DD form (asked for a date, and
\* not the word for none) leaves the quest rows, the task rows, the dialogue
\* state and the collected fields as they were.
C21_ValidationFailureMutatesNothing ==
    [][\A text \in RequiredTexts \cup PointsTexts \cup DateTexts :
          (\/ /\ int_raises(text)
              /\ \/ Admin(quest_required_text(text))
                 \/ Admin(task_points(text))
                 \/ /\ admin_fsm.state = "TaskEdit.field"
                    /\ admin_fsm.data["field"] = "points"
                    /\ get(admin_fsm.data, "task_id") \in DOMAIN tasks
                    /\ Admin(edit_task_field(text))
           \/ /\ ~IsYearMonthDay(text) /\ text # Net
              /\ \/ Admin(task_date_text(text))
                 \/ /\ admin_fsm.state = "TaskEdit.field"
                    /\ admin_fsm.data["field"] = "date"
                    /\ get(admin_fsm.data, "task_id") \in DOMAIN tasks
                    /\ Admin(edit_task_field(text)))
          => UNCHANGED <<quests, tasks, admin_fsm>>]_vars

\* the step has inserted or changed no row of the table
NoRowStored(rows, after) ==
    \A id \in DOMAIN after : id \in DOMAIN rows /\ after[id] = rows[id]

\* C24: a cancel or reset action in any dialogue state clears the dialogue
\* state and its collected data and leaves the rows of users, quests, tasks,
\* submissions and completions and every file a row references unchanged; a
\* message handled after it, with the dialogue of its sender cleared, creates
\* no quest, task or submission.
C24_CancelClearsDialogueOnly ==
    [][/\ last'.op = "admin_cancel" => admin_fsm' = ClearedAdmin
       /\ last'.op = "cancel_action" => fsm' = ClearedFsm
       /\ last'.op \in {"admin_cancel", "cancel_action"}
             => /\ UNCHANGED <<users, quests, tasks, submissions,
                               quest_completions>>
                /\ \A f \in RowFiles(submissions, tasks, quests) : FileKept(f)
       /\ admin_fsm = ClearedAdmin
             => NoRowStored(quests, quests') /\ NoRowStored(tasks, tasks')
       /\ (fsm = ClearedFsm /\ procs = EmptyBag)
             => NoRowStored(submissions, submissions')]_vars

\* a dialogue was cancelled while quest, task and submission rows and their
\* files exist
C24_Witness ==
    /\ last.op \in {"admin_cancel", "cancel_action"}
    /\ quests # EmptyRows /\ tasks # EmptyRows /\ submissions # EmptyRows
    /\ RowFiles(submissions, tasks, quests) \cap files # {}

\* C33: in every reachable state a submission has an approval timestamp if
\* and only if is_approved is true; a row that appears starts with
\* is_approved = FALSE and no approval timestamp, and a step that changes
\* either field of a row is a step of approve on that row.
C33_StampedIffApproved ==
    /\ [](\A s \in DOMAIN submissions :
            submissions[s].is_approved <=> submissions[s].approved_at # NULL)
    /\ [][\A s \in DOMAIN submissions' :
            /\ s \notin DOMAIN submissions
                  => /\ ~submissions'[s].is_approved
                     /\ submissions'[s].approved_at = NULL
                     /\ last'.op = "process_complete_submission"
            /\ (/\ s \in DOMAIN submissions
                /\ \/ submissions'[s].is_approved # submissions[s].is_approved
                   \/ submissions'[s].approved_at # submissions[s].approved_at)
                  => Took("approve", s)]_vars

\* approve has approved a submission while another one is pending
C33_Witness ==
    /\ last.op = "approve" /\ last.arg \in DOMAIN submissions
    /\ submissions[last.arg].is_approved
    /\ \E s \in DOMAIN submissions : ~submissions[s].is_approved

\* C37: the id of a deleted submission is never given to a submission created
\* later: the step after reject has deleted a submission inserts no row under
\* the id of the deleted one, so a button issued for it cannot act on another
\* submission.
C37_DeletedIdNotReused ==
    [][(/\ last.op = "reject" /\ last.out # {}
        /\ last.arg \notin DOMAIN submissions)
          => last.arg \notin DOMAIN submissions']_vars

\* the photo of a row that a step inserts was downloaded in the dialogue and
\* a comment came after it: the caption of the photo whose handler was
\* suspended after its download, or a text in waiting_for_comment
PhotoThenComment(s) ==
    LET photo == submissions'[s].photo_url
    IN /\ last'.op = "process_complete_submission"
       /\ photo # NoFile /\ photo \in files
       /\ \/ \E p \in Suspended :
                p.kind = "downloaded" /\ p.caption /\ p.dest = photo
          \/ fsm.state = "waiting_for_comment" /\ fsm.photo_path = photo

\* C31: a submission row is inserted only after a photo was downloaded
\* successfully in the dialogue and a comment was then supplied, as the
\* photo's caption or as a later text; a text in waiting_for_photo and a photo
\* in waiting_for_comment insert nothing and leave the dialogue state and its
\* data unchanged.
C31_RowOnlyAfterPhotoThenComment ==
    [][/\ \A s \in DOMAIN submissions' \ DOMAIN submissions :
             PhotoThenComment(s)
       /\ last'.op \in {"handle_unexpected_text", "handle_unexpected_photo"}
             => UNCHANGED <<submissions, fsm>>]_vars

\* a photo arrived in waiting_for_comment and nothing was stored for it
C31_Witness ==
    /\ last.op = "handle_unexpected_photo"
    /\ fsm.state = "waiting_for_comment" /\ fsm.photo_path \in files
    /\ fsm.task_id \in DOMAIN tasks

\* C32: in every reachable state every task row belongs to an existing
\* quest: its quest_id names a quest row that exists, also when the quest is
\* deleted between add_task_<quest id> and the last step of the task-creation
\* dialogue.
C32_TaskHasQuest ==
    \A t \in DOMAIN tasks : tasks[t].quest_id \in DOMAIN quests

\* C34: quest completion is permanent: no step deletes a QuestCompletion row
\* or changes its user, a row for (quest, user) stays a row for that pair as
\* long as the quest exists (the delete of the quest leaves the row with no
\* quest), and in every reachable state show_current_quest selects no quest
\* that a QuestCompletion row names for the participant.
C34_CompletionIsPermanent ==
    /\ [](\A c \in DOMAIN quest_completions :
            (/\ quest_completions[c].user_id = GIRLFRIEND_USER
             /\ quest_completions[c].quest_id # NULL)
                => show_current_quest(GIRLFRIEND_USER)
                       # quest_completions[c].quest_id)
    /\ [][\A c \in DOMAIN quest_completions :
            /\ c \in DOMAIN quest_completions'
            /\ quest_completions'[c].user_id = quest_completions[c].user_id
            /\ \/ quest_completions'[c].quest_id = quest_completions[c].quest_id
               \/ /\ quest_completions[c].quest_id \notin DOMAIN quests'
                  /\ quest_completions'[c].quest_id = NULL]_vars

\* a quest is completed, the approved submission that completed it was
\* rejected afterwards, and another quest is open
C34_Witness ==
    /\ last.op = "reject" /\ last.out # {}
    /\ \E c \in DOMAIN quest_completions :
          /\ quest_completions[c].quest_id \in DOMAIN quests
          /\ quest_completions[c].user_id = GIRLFRIEND_USER
          /\ CompletedCount(submissions, GIRLFRIEND_USER)
                < quests[quest_completions[c].quest_id].required_completions
    /\ show_current_quest(GIRLFRIEND_USER) # NULL

\* C35: in every reachable state the progress of the current-quest view is
\* bounded: its percentage is between 0 and 100 and its bar has exactly 10
\* segments; and every bar show_my_stats renders through format_progress_bar
\* for a quest without a completion has exactly 10 segments.
C35_ProgressIsBounded ==
    /\ LET q == show_current_quest(GIRLFRIEND_USER)
           percent == current_percent(completed_count(GIRLFRIEND_USER),
                                      quests[q].required_completions)
       IN q # NULL => /\ percent \in 0..100
                      /\ Len(current_bar(percent)) = 10
    /\ \A q \in DOMAIN quests :
          ~Existing(q, GIRLFRIEND_USER)
              => Len(format_progress_bar(
                         QuestCompletedCount(submissions, tasks, q,
                                             GIRLFRIEND_USER),
                         quests[q].required_completions)) = length

====
